---- MODULE Spec2Model ----
(* A model of the two monitors of dannyshare1/monitor:                      *)
(*   monitor_brent.py  - Brent close price, K consecutive business days     *)
(*                       strictly above a threshold, stateless debounce     *)
(*   monitor_cn10y.py  - China 10Y yield, latest value against a threshold  *)
(* Calendar dates are day numbers; day 0 is a Monday, so d % 7 is the       *)
(* weekday (0 = Monday .. 4 = Friday, 5 = Saturday, 6 = Sunday).            *)
EXTENDS Integers, Sequences, FiniteSets, TLC

VARIABLES
  monitor,       \* which script the process runs: "brent" or "cn10y"
  creds,         \* TELEGRAM_BOT_TOKEN and TELEGRAM_CHAT_ID are both set
  K,             \* CONSECUTIVE_DAYS (brent)
  ak,            \* the akshare import succeeded (cn10y)
  pc,            \* position of the process: "fetch", "decide", "notify", "exit"
                 \* ("check": is_consecutive_bdays is about to be applied to idx)
  attempt,       \* index of the next fetch attempt / method (1-based)
  calls,         \* the provider calls made in this run, in order, and what each
                 \* did: [name, outcome] (cn10y: and the value it returned)
  errors,        \* fetch_yield_multi's errors list: <<name, reason>> entries
  df_raw,        \* the provider frame of the last brent attempt
  df,            \* the series fetch_daily returned
  result,        \* the (yld, source) fetch_yield_multi returned
  should_alert,  \* brent: sequence_just_turned_true's flag; cn10y: yld >= THRESHOLD
  last_k,        \* the window sequence_just_turned_true returned
  post,          \* send_telegram in this run: "none" (not called), "unconfigured",
                 \* or what requests.post did: "200", "non200", "raised"
  exit_code,     \* -1 while running, else the process's exit status
  stderr,        \* the fatal error message: [kind, lines]
  prev,          \* the previous run of the monitor: [ran, alerting, notified]
  market,        \* the closes published so far, one per business day (daily runs)
  idx,           \* the DatetimeIndex handed to is_consecutive_bdays
  contiguous     \* its answer

vars == <<monitor, creds, K, ak, pc, attempt, calls, errors, df_raw, df, result,
          should_alert, last_k, post, exit_code, stderr, prev, market, idx, contiguous>>

cfgVars == <<monitor, creds, K, ak>>
fetchVars == <<attempt, calls, errors, df_raw, df, result>>
pureVars == <<idx, contiguous>>

-----------------------------------------------------------------------------
(* Bounds of the model *)

MaxDate == 8       \* calendar days 0 .. MaxDate (Monday .. Tuesday of the next week)
MaxLen == 4        \* longest series handed to the edge detector
MaxK == 3          \* largest CONSECUTIVE_DAYS of the edge detector's inputs
MaxIdx == 3        \* longest index handed to is_consecutive_bdays alone

(* Program constants *)

THRESHOLD == 70    \* monitor_brent.py THRESHOLD default

Dates == 0 .. MaxDate
Closes == {THRESHOLD, THRESHOLD + 1}
NaN == -1

-----------------------------------------------------------------------------
(* pandas helpers *)

Min(a, b) == IF a < b THEN a ELSE b

\* df.tail(n) for n >= 0: the last min(n, len) rows
tail(s, n) == SubSeq(s, Len(s) - Min(n, Len(s)) + 1, Len(s))

index(s) == [i \in 1 .. Len(s) |-> s[i].date]

\* pd.bdate_range(a, b): every Monday-Friday date of [a, b], ascending
RECURSIVE bdate_range(_, _)
bdate_range(a, b) ==
  IF a > b THEN <<>>
  ELSE IF a % 7 < 5 THEN <<a>> \o bdate_range(a + 1, b)
  ELSE bdate_range(a + 1, b)

is_consecutive_bdays_loose(i) ==
  IF Len(i) <= 1 THEN TRUE
  ELSE Len(bdate_range(i[1], i[Len(i)])) = Len(i)

is_consecutive_bdays(i) ==
  IF Len(i) <= 1 THEN TRUE
  ELSE LET rng == bdate_range(i[1], i[Len(i)])
       IN  /\ Len(rng) = Len(i)
           /\ \A j \in 1 .. Len(i) : i[j] = rng[j]

\* (frame["Close"] > threshold).all()
all_above(s, threshold) == \A j \in 1 .. Len(s) : s[j].Close > threshold

sequence_just_turned_true_nodebounce(s, threshold, k) ==
  IF Len(s) < k THEN [alert |-> FALSE, window |-> tail(s, k)]
  ELSE LET w == tail(s, k)
       IN  [alert |-> is_consecutive_bdays(index(w)) /\ all_above(w, threshold),
            window |-> w]

sequence_just_turned_true_fullwindow(s, threshold, k) ==
  IF Len(s) < k THEN [alert |-> FALSE, window |-> tail(s, k)]
  ELSE LET w == tail(s, k)
           w1 == tail(s, k + 1)
       IN  IF ~is_consecutive_bdays(index(w)) THEN [alert |-> FALSE, window |-> w]
           ELSE IF ~all_above(w, threshold) THEN [alert |-> FALSE, window |-> w]
           ELSE IF Len(s) >= k + 1 /\ is_consecutive_bdays(index(w1))
                   /\ all_above(w1, threshold)
                THEN [alert |-> FALSE, window |-> w1]
           ELSE [alert |-> TRUE, window |-> w]

sequence_just_turned_true(s, threshold, k) ==
  IF Len(s) < k THEN [alert |-> FALSE, window |-> tail(s, k)]
  ELSE LET last_k_ == tail(s, k)
           last_kp1 == tail(s, k + 1)
       IN  IF ~is_consecutive_bdays(index(last_k_))
             THEN [alert |-> FALSE, window |-> last_k_]
           ELSE IF ~all_above(last_k_, threshold)
             THEN [alert |-> FALSE, window |-> last_k_]
           ELSE IF Len(s) >= k + 1 /\ is_consecutive_bdays(index(last_kp1))
                   /\ all_above(last_kp1, threshold)
             THEN [alert |-> FALSE, window |-> last_k_]
           ELSE [alert |-> TRUE, window |-> last_k_]

-----------------------------------------------------------------------------
(* Inputs of the pure functions *)

\* the series handed to the edge detector are sorted by date (sort_index); they
\* can hold any calendar dates, and repeated dates
\* a series of n points with the dates d and the closes c
Series(d, c) == [j \in 1 .. Len(d) |-> [date |-> d[j], Close |-> c[j]]]
Sorted(d) == \A j \in 1 .. Len(d) - 1 : d[j] <= d[j + 1]

IdxInputs == UNION {[1 .. n -> Dates] : n \in 0 .. MaxIdx}

NoFrame == [multi |-> FALSE, columns |-> <<>>, rows |-> <<>>]
NoResult == [yld |-> NaN, source |-> "none"]
Quiet == [kind |-> "none", lines |-> <<>>]
Fatal(kind) == [kind |-> kind, lines |-> <<>>]

\* the values the variables of a process hold before it has done anything
Fresh ==
  /\ attempt = 1 /\ calls = <<>> /\ errors = <<>>
  /\ df_raw = NoFrame /\ df = <<>> /\ result = NoResult
  /\ should_alert = FALSE /\ last_k = <<>>
  /\ post = "none" /\ exit_code = -1 /\ stderr = Quiet

NoRun == [ran |-> FALSE, alerting |-> FALSE, notified |-> FALSE]
NoHistory == prev = NoRun /\ market = <<>>
NoIndex == idx = <<>> /\ contiguous = FALSE

-----------------------------------------------------------------------------
(* is_consecutive_bdays alone: monitor_brent.py 134-138 *)

CheckIndex ==
  /\ pc = "check"
  /\ contiguous' = is_consecutive_bdays(idx)
  /\ pc' = "exit"
  /\ UNCHANGED <<monitor, creds, K, ak, attempt, calls, errors, df_raw, df, result,
                 should_alert, last_k, post, exit_code, stderr, prev, market, idx>>

InitIndex ==
  /\ monitor = "brent" /\ creds = FALSE /\ K = 1 /\ ak = FALSE
  /\ pc = "check" /\ Fresh /\ NoHistory
  /\ idx \in IdxInputs
  /\ contiguous = FALSE

SpecIndex == InitIndex /\ [][CheckIndex]_vars

\* C8: is_consecutive_bdays answers TRUE for every index of length 0 or 1; for a
\* longer index it answers TRUE exactly when the index is the complete ascending
\* list of the Monday-Friday dates from its first to its last date. Hence Friday
\* followed by the next Monday is contiguous, an index that skips a weekday is
\* not, and an index of two or more dates holding a Saturday or Sunday is not.
IsWeekday(d) == d % 7 \notin {5, 6}
WeekdaysSpanned(i) == {d \in i[1] .. i[Len(i)] : IsWeekday(d)}
IsCompleteWeekdayList(i) ==
  /\ \A j \in 1 .. Len(i) - 1 : i[j] < i[j + 1]
  /\ {i[j] : j \in 1 .. Len(i)} = WeekdaysSpanned(i)
C8_ContiguityIsCompleteWeekdayList ==
  pc = "exit" =>
    /\ Len(idx) <= 1 => contiguous
    /\ Len(idx) >= 2 => (contiguous <=> IsCompleteWeekdayList(idx))
    /\ idx = <<4, 7>> => contiguous
    /\ (Len(idx) >= 2 /\ \E d \in WeekdaysSpanned(idx) : \A j \in 1 .. Len(idx) : idx[j] # d)
         => ~contiguous
    /\ (Len(idx) >= 2 /\ \E j \in 1 .. Len(idx) : ~IsWeekday(idx[j])) => ~contiguous
C8_FridayThenMondayChecked == pc = "exit" /\ idx = <<4, 7>> /\ contiguous

-----------------------------------------------------------------------------
(* monitor_brent.py main, from the call of sequence_just_turned_true to the  *)
(* return of the no-alert branch: lines 176-185                             *)

BrentDecide ==
  /\ pc = "decide" /\ monitor = "brent"
  /\ LET r == sequence_just_turned_true(df, THRESHOLD, K)
     IN  /\ should_alert' = r.alert
         /\ last_k' = r.window
         /\ IF r.alert
              THEN pc' = "notify" /\ UNCHANGED <<exit_code, stderr>>
              ELSE \* df["Close"].iloc[-1] raises IndexError on an empty frame,
                   \* which __main__ turns into fail(str(e))
                   /\ pc' = "exit"
                   /\ exit_code' = IF Len(df) = 0 THEN 1 ELSE 0
                   /\ stderr' = IF Len(df) = 0 THEN Fatal("exception") ELSE Quiet
  /\ UNCHANGED <<cfgVars, fetchVars, post, prev, market, pureVars>>

(* sequence_just_turned_true alone, on every sorted series *)
InitEdge ==
  /\ monitor = "brent" /\ creds = FALSE /\ ak = FALSE
  /\ K \in 1 .. MaxK
  /\ attempt = 1 /\ calls = <<>> /\ errors = <<>> /\ df_raw = NoFrame /\ result = NoResult
  /\ \E n \in 0 .. MaxLen : \E d \in [1 .. n -> Dates] :
       /\ Sorted(d)
       /\ \E c \in [1 .. n -> Closes] : df = Series(d, c)
  /\ pc = "decide"
  /\ should_alert = FALSE /\ last_k = <<>>
  /\ post = "none" /\ exit_code = -1 /\ stderr = Quiet
  /\ NoHistory /\ NoIndex

SpecEdge == InitEdge /\ [][BrentDecide]_vars

Evaluated == pc \in {"notify", "exit"}

\* the last n points of s (n <= Len(s))
LastPoints(s, n) == [j \in 1 .. n |-> s[Len(s) - n + j]]
NextBDay(d) == IF d % 7 = 4 THEN d + 3 ELSE d + 1
\* a contiguous Monday-Friday run: at most one date, or weekdays each followed
\* by the next weekday
ContiguousRun(w) ==
  \/ Len(w) <= 1
  \/ /\ \A j \in 1 .. Len(w) : IsWeekday(w[j].date)
     /\ \A j \in 1 .. Len(w) - 1 : w[j + 1].date = NextBDay(w[j].date)
Qualifies(s, n) ==
  /\ Len(s) >= n
  /\ ContiguousRun(LastPoints(s, n))
  /\ \A j \in 1 .. n : LastPoints(s, n)[j].Close > THRESHOLD

\* C1: sequence_just_turned_true answers shouldAlert = TRUE exactly when the series
\* has at least K points, the last K dates are a contiguous business-day run and
\* the last K values are all strictly above the threshold, and the same is not
\* true of the last K+1 points.
C1_AlertIffJustTurnedTrue ==
  Evaluated => (should_alert <=> (Qualifies(df, K) /\ ~Qualifies(df, K + 1)))
C1_EdgeAfterLowerDay ==
  /\ Evaluated /\ should_alert /\ K >= 2 /\ Len(df) >= K + 1
  /\ ContiguousRun(LastPoints(df, K + 1))

\* C9: with fewer than K points the answer is shouldAlert = FALSE and the window is
\* the whole series; in every other case the window is the last K points.
C9_WindowIsTail ==
  Evaluated =>
    /\ Len(df) < K => (~should_alert /\ last_k = df)
    /\ Len(df) >= K => last_k = LastPoints(df, K)
C9_ShortSeriesEvaluated ==
  Evaluated /\ Len(df) >= 1 /\ Len(df) < K /\ ~should_alert /\ last_k = df

-----------------------------------------------------------------------------
(* monitor_brent.py: the provider frames and their normalisation *)

MaxRows == 2       \* most rows of a provider frame
MaxRawDate == 1    \* provider rows carry the dates 0 .. MaxRawDate

SYMBOL == "BZ=F"
FIELDS == {"Open", "High", "Low", "Close", "Adj Close", "Volume"}

\* A provider frame: its column labels in order (a label is a tuple: one name for
\* single-level columns, two for a MultiIndex) and its rows in the provider's
\* order. A row carries its index date and the bar's close x (NaN: missing); the
\* cell of a column is a function of x that tells the columns apart.
RawRows == UNION {[1 .. n -> [date : 0 .. MaxRawDate, x : {NaN, THRESHOLD, THRESHOLD + 1}]]
                   : n \in 0 .. MaxRows}
SingleLayouts == {
  << <<"Close">>, <<"Adj Close">> >>,
  << <<"Adj Close">>, <<"Volume">> >>,
  << <<"Volume">> >> }
MultiLayouts == {
  << <<"Close", SYMBOL>>, <<"Adj Close", SYMBOL>> >>,
  << <<"Adj Close", SYMBOL>>, <<"Volume", SYMBOL>> >>,
  << <<"Close", "CL=F">> >>,
  << <<SYMBOL, "Close">>, <<SYMBOL, "Adj Close">> >>,
  << <<SYMBOL, "Adj Close">> >>,
  << <<"Close", SYMBOL>>, <<SYMBOL, "Volume">> >>,
  << <<"CL=F", "Adj Close">>, <<"Volume", "X">> >> }
RawFrames ==
  {[multi |-> FALSE, columns |-> c, rows |-> r] : c \in SingleLayouts, r \in RawRows}
  \cup {[multi |-> TRUE, columns |-> c, rows |-> r] : c \in MultiLayouts, r \in RawRows}

Has(cols, label) == \E j \in 1 .. Len(cols) : cols[j] = label
FieldOf(label) ==
  IF label[1] \in FIELDS THEN label[1]
  ELSE IF Len(label) = 2 /\ label[2] \in FIELDS THEN label[2] ELSE "none"
ForSymbol(label) == Len(label) = 1 \/ label[1] = SYMBOL \/ label[2] = SYMBOL
Cell(row, label) ==
  IF row.x = NaN THEN NaN
  ELSE row.x + (IF FieldOf(label) = "Adj Close" THEN 1 ELSE 0)
             + (IF ForSymbol(label) THEN 0 ELSE 10)

\* df[label].rename("Close").to_frame()
column(f, label) ==
  [j \in 1 .. Len(f.rows) |-> [date |-> f.rows[j].date, Close |-> Cell(f.rows[j], label)]]

\* DataFrame.empty: no rows or no columns
empty(f) == Len(f.rows) = 0 \/ Len(f.columns) = 0

IsValue(p) == p.Close # NaN
dropna(s) == SelectSeq(s, IsValue)

\* sort_index(): the rows in ascending date order; the default sort is not stable,
\* so rows of one date may come out in any order
Without(s, j) == [i \in 1 .. Len(s) - 1 |-> IF i < j THEN s[i] ELSE s[i + 1]]
RECURSIVE sort_index(_)
sort_index(s) ==
  IF Len(s) = 0 THEN {<<>>}
  ELSE LET earliest == {j \in 1 .. Len(s) : \A i \in 1 .. Len(s) : s[j].date <= s[i].date}
       IN  UNION {{<<s[j]>> \o t : t \in sort_index(Without(s, j))} : j \in earliest}

\* every outcome of _to_close_df_singlelevel (<<>>: the empty DataFrame)
to_close_df_singlelevel(f) ==
  IF empty(f) THEN {<<>>}
  ELSE IF Has(f.columns, <<"Close">>) THEN sort_index(dropna(column(f, <<"Close">>)))
  ELSE IF Has(f.columns, <<"Adj Close">>) THEN sort_index(dropna(column(f, <<"Adj Close">>)))
  ELSE {<<>>}

FirstAt(cols, level, name) ==
  cols[CHOOSE j \in 1 .. Len(cols) :
         /\ cols[j][level] = name
         /\ \A i \in 1 .. j - 1 : cols[i][level] # name]
AtLevel(cols, level, name) == \E j \in 1 .. Len(cols) : cols[j][level] = name

\* the column _to_close_df_multilevel selects (<<>>: none)
pick_multilevel(cols, symbol) ==
  LET is_field_first == \A j \in 1 .. Len(cols) : cols[j][1] \in FIELDS
      is_ticker_first == \A j \in 1 .. Len(cols) : cols[j][2] \in FIELDS
  IN  IF is_field_first
        THEN IF Has(cols, <<"Close", symbol>>) THEN <<"Close", symbol>>
             ELSE IF Has(cols, <<"Adj Close", symbol>>) THEN <<"Adj Close", symbol>>
             ELSE <<>>
      ELSE IF is_ticker_first
        THEN IF Has(cols, <<symbol, "Close">>) THEN <<symbol, "Close">>
             ELSE IF Has(cols, <<symbol, "Adj Close">>) THEN <<symbol, "Adj Close">>
             ELSE <<>>
      ELSE IF AtLevel(cols, 1, "Close") THEN FirstAt(cols, 1, "Close")
      ELSE IF AtLevel(cols, 1, "Adj Close") THEN FirstAt(cols, 1, "Adj Close")
      ELSE IF AtLevel(cols, 2, "Close") THEN FirstAt(cols, 2, "Close")
      ELSE IF AtLevel(cols, 2, "Adj Close") THEN FirstAt(cols, 2, "Adj Close")
      ELSE <<>>

\* every outcome of _to_close_df_multilevel
to_close_df_multilevel(f, symbol) ==
  IF empty(f) \/ ~f.multi THEN {<<>>}
  ELSE LET label == pick_multilevel(f.columns, symbol)
       IN  IF label = <<>> THEN {<<>>}
           ELSE sort_index(dropna(column(f, label)))

-----------------------------------------------------------------------------
(* monitor_brent.py fetch_daily: lines 92-132, one provider call per step *)

\* the six provider calls in order: Ticker.history for the three periods, then
\* yf.download for the same three
Attempts == <<"history_40d", "history_60d", "history_3mo",
              "download_40d", "download_60d", "download_3mo">>
IsHistory(a) == a <= 3

\* what a provider call can do: raise, or return a frame
Responses ==
  {[raised |-> TRUE, frame |-> NoFrame]}
  \cup {[raised |-> FALSE, frame |-> f] : f \in RawFrames}

\* the series an attempt can obtain from a response (<<>>: the attempt failed)
attempt_series(a, resp) ==
  IF resp.raised THEN {<<>>}
  ELSE IF IsHistory(a)
    \* on a MultiIndex columns.astype(str) raises (caught by the loop's except)
    \* or yields no "Close" label: either way the attempt fails
    THEN IF resp.frame.multi /\ ~empty(resp.frame) THEN {<<>>}
         ELSE to_close_df_singlelevel(resp.frame)
  ELSE IF empty(resp.frame) THEN {<<>>}
  ELSE IF resp.frame.multi THEN to_close_df_multilevel(resp.frame, SYMBOL)
  ELSE to_close_df_singlelevel(resp.frame)

\* the history loop catches what a call raises; the download loop does not, and
\* the exception reaches __main__, which ends the process with fail(str(e))
escapes(a, resp) == resp.raised /\ ~IsHistory(a)

BrentFetchFrom(responses) ==
  /\ pc = "fetch" /\ monitor = "brent" /\ attempt \in 1 .. Len(Attempts)
  /\ \E resp \in responses : \E out \in attempt_series(attempt, resp) :
       /\ calls' = Append(calls, [name |-> Attempts[attempt],
                                  outcome |-> IF resp.raised \/ out = <<>>
                                              THEN "failed" ELSE "ok"])
       /\ IF escapes(attempt, resp)
            THEN /\ pc' = "exit" /\ exit_code' = 1 /\ stderr' = Fatal("exception")
                 /\ UNCHANGED <<attempt, df_raw, df>>
          ELSE IF out # <<>>
            THEN /\ df' = out /\ df_raw' = resp.frame /\ pc' = "decide"
                 /\ UNCHANGED <<attempt, exit_code, stderr>>
          ELSE IF attempt = Len(Attempts)
            THEN /\ pc' = "exit" /\ exit_code' = 1 /\ stderr' = Fatal("exhausted")
                 /\ UNCHANGED <<attempt, df_raw, df>>
          ELSE /\ attempt' = attempt + 1
               /\ UNCHANGED <<pc, df_raw, df, exit_code, stderr>>
  /\ UNCHANGED <<cfgVars, errors, result, should_alert, last_k, post, prev, market, pureVars>>

BrentFetch == BrentFetchFrom(Responses)

-----------------------------------------------------------------------------
(* send_telegram of the two scripts. status is what requests.post did:      *)
(* "200", "non200" (any other status code) or "raised".                      *)

Statuses == {"200", "non200", "raised"}

brent_send_telegram_lenient(configured, status) ==
  IF ~configured THEN [post |-> "unconfigured", exit |-> 1, kind |-> "unconfigured"]
  ELSE IF status = "raised" THEN [post |-> status, exit |-> 1, kind |-> "exception"]
  ELSE [post |-> status, exit |-> 0, kind |-> "none"]

\* monitor_brent.py 157-170: fail() without credentials and on a non-200 answer;
\* what requests.post raises reaches __main__, which calls fail(str(e))
brent_send_telegram(configured, status) ==
  IF ~configured THEN [post |-> "unconfigured", exit |-> 1, kind |-> "unconfigured"]
  ELSE IF status = "200" THEN [post |-> status, exit |-> 0, kind |-> "none"]
  ELSE IF status = "non200" THEN [post |-> status, exit |-> 1, kind |-> "delivery"]
  ELSE [post |-> status, exit |-> 1, kind |-> "exception"]

cn_send_telegram_strict(configured, status) ==
  IF ~configured THEN [post |-> "unconfigured", exit |-> 2, kind |-> "unconfigured"]
  ELSE [post |-> status, exit |-> 0, kind |-> "none"]

\* monitor_cn10y.py 320-339: without credentials the push is skipped; a non-200
\* answer and an exception are only warned about
cn_send_telegram(configured, status) ==
  IF ~configured THEN [post |-> "unconfigured", exit |-> 0, kind |-> "none"]
  ELSE [post |-> status, exit |-> 0, kind |-> "none"]

\* monitor_brent.py main 187-199: the message is built and send_telegram called
BrentNotify ==
  /\ pc = "notify" /\ monitor = "brent"
  /\ \E status \in Statuses :
       LET r == brent_send_telegram(creds, status)
       IN  /\ post' = r.post
           /\ exit_code' = r.exit
           /\ stderr' = Fatal(r.kind)
  /\ pc' = "exit"
  /\ UNCHANGED <<cfgVars, fetchVars, should_alert, last_k, prev, market, pureVars>>

-----------------------------------------------------------------------------
(* monitor_cn10y.py *)

THRESHOLD_CN == 185    \* monitor_cn10y.py THRESHOLD default 1.85 (%), in basis points

Ylds == {THRESHOLD_CN - 1, THRESHOLD_CN, THRESHOLD_CN + 1}

methods_curve_first ==
  <<"try_akshare_yield_curve", "try_akshare_zh_us", "try_tradingeconomics", "try_investing_com">>

\* fetch_yield_multi's methods list
methods ==
  <<"try_akshare_zh_us", "try_akshare_yield_curve", "try_tradingeconomics", "try_investing_com">>

NeedsAkshare == {"try_akshare_zh_us", "try_akshare_yield_curve"}

\* the source label a method returns on success
Sources(m) ==
  CASE m = "try_akshare_zh_us" -> {"AkShare: bond_zh_us_rate"}
    [] m = "try_akshare_yield_curve" -> {"AkShare: bond_china_yield"}
    [] m = "try_tradingeconomics" ->
         {"TradingEconomics: markets/bond/china:10y",
          "TradingEconomics: historical/country/China",
          "TradingEconomics: historical/markets/bond/china:10y"}
    [] m = "try_investing_com" -> {"Investing.com"}

\* reasons a method raises YieldFetchError with (two of each method's)
Reasons(m) ==
  CASE m = "try_akshare_zh_us" -> {"bond_zh_us_rate() failed", "no 10Y column"}
    [] m = "try_akshare_yield_curve" -> {"bond_china_yield() failed", "no 10Y row"}
    [] m = "try_tradingeconomics" -> {"HTTP error", "no field parsed"}
    [] m = "try_investing_com" -> {"HTTP error", "table not parsed"}

\* what a call of method m can do
outcomes(m, installed) ==
  IF m \in NeedsAkshare /\ ~installed
    THEN {[ok |-> FALSE, yld |-> NaN, source |-> "none", reason |-> "AkShare not installed"]}
  ELSE {[ok |-> TRUE, yld |-> y, source |-> src, reason |-> "none"]
          : y \in Ylds, src \in Sources(m)}
       \cup {[ok |-> FALSE, yld |-> NaN, source |-> "none", reason |-> r] : r \in Reasons(m)}

record_failure_last_only(errs, name, reason) == <<<<name, reason>>>>

\* err = f"{name} failed: {e}"; errors.append(err)
record_failure(errs, name, reason) == Append(errs, <<name, reason>>)

\* fetch_yield_multi, lines 297-317: one method per step. When the last method
\* fails, YieldFetchError(all errors) reaches __main__, which exits with 2.
CnFetch ==
  /\ pc = "fetch" /\ monitor = "cn10y" /\ attempt \in 1 .. Len(methods)
  /\ LET name == methods[attempt]
     IN  \E o \in outcomes(name, ak) :
           /\ calls' = Append(calls, [name |-> name,
                                      outcome |-> IF o.ok THEN "ok" ELSE o.reason,
                                      value |-> [yld |-> o.yld, source |-> o.source]])
           /\ IF o.ok
                THEN /\ result' = [yld |-> o.yld, source |-> o.source]
                     /\ pc' = "decide"
                     /\ UNCHANGED <<attempt, errors, exit_code, stderr>>
              ELSE /\ errors' = record_failure(errors, name, o.reason)
                   /\ UNCHANGED result
                   /\ IF attempt = Len(methods)
                        THEN /\ pc' = "exit" /\ exit_code' = 2
                             /\ stderr' = [kind |-> "exhausted", lines |-> errors']
                             /\ UNCHANGED attempt
                      ELSE /\ attempt' = attempt + 1
                           /\ UNCHANGED <<pc, exit_code, stderr>>
  /\ UNCHANGED <<cfgVars, df_raw, df, should_alert, last_k, post, prev, market, pureVars>>

cn_alert_due_strict(yld) == yld > THRESHOLD_CN

\* main, line 347
cn_alert_due(yld) == yld >= THRESHOLD_CN

\* main, lines 345-355, up to the call of send_telegram
CnDecide ==
  /\ pc = "decide" /\ monitor = "cn10y"
  /\ should_alert' = cn_alert_due(result.yld)
  /\ IF cn_alert_due(result.yld)
       THEN pc' = "notify" /\ UNCHANGED exit_code
       ELSE pc' = "exit" /\ exit_code' = 0
  /\ UNCHANGED <<cfgVars, fetchVars, last_k, post, stderr, prev, market, pureVars>>

CnNotify ==
  /\ pc = "notify" /\ monitor = "cn10y"
  /\ \E status \in Statuses :
       LET r == cn_send_telegram(creds, status)
       IN  /\ post' = r.post
           /\ exit_code' = r.exit
           /\ stderr' = Fatal(r.kind)
  /\ pc' = "exit"
  /\ UNCHANGED <<cfgVars, fetchVars, should_alert, last_k, prev, market, pureVars>>

-----------------------------------------------------------------------------
(* The scheduled process: either script, run again after it has exited *)

\* a new process: every variable of the run starts afresh
StartRun ==
  /\ pc' = "fetch"
  /\ attempt' = 1 /\ calls' = <<>> /\ errors' = <<>>
  /\ df_raw' = NoFrame /\ df' = <<>> /\ result' = NoResult
  /\ should_alert' = FALSE /\ last_k' = <<>>
  /\ post' = "none" /\ exit_code' = -1 /\ stderr' = Quiet

\* prev keeps what the cn10y run that just ended saw and did, for the claims about
\* consecutive runs (nothing of it is visible to the next process)
Rerun ==
  /\ pc = "exit"
  /\ prev' = IF monitor = "cn10y"
              THEN [ran |-> TRUE, alerting |-> should_alert, notified |-> post = "200"]
              ELSE prev
  /\ StartRun
  /\ UNCHANGED <<cfgVars, market, pureVars>>

Init ==
  /\ monitor \in {"brent", "cn10y"}
  /\ creds \in BOOLEAN
  /\ K \in (IF monitor = "brent" THEN 1 .. MaxRows ELSE {1})
  /\ ak \in (IF monitor = "cn10y" THEN BOOLEAN ELSE {FALSE})
  /\ pc = "fetch" /\ Fresh /\ NoHistory /\ NoIndex

Next ==
  \/ BrentFetch \/ BrentDecide \/ BrentNotify
  \/ CnFetch \/ CnDecide \/ CnNotify
  \/ Rerun

Spec == Init /\ [][Next]_vars

-----------------------------------------------------------------------------
(* The Brent monitor run once per business day on a gap-free series that     *)
(* grows by one point per run                                                *)

MaxDays == 6       \* business days published

\* the calendar date of the i-th business day (the first is Monday, day 0)
BDate(i) == (7 * ((i - 1) \div 5)) + ((i - 1) % 5)

\* the provider keeps the last n published points, at least K + 1 of them
\* (all of them while fewer are published)
Retained == Min(K + 1, Len(market)) .. Len(market)
MarketRows(n) ==
  [j \in 1 .. n |-> [date |-> BDate(Len(market) - n + j), x |-> market[Len(market) - n + j]]]

\* a call raises, answers with an empty frame, or answers with the retained
\* points under single-level or (field, ticker) columns
DailyResponses ==
  {[raised |-> TRUE, frame |-> NoFrame],
   [raised |-> FALSE, frame |-> NoFrame]}
  \cup {[raised |-> FALSE,
         frame |-> [multi |-> FALSE, columns |-> << <<"Close">>, <<"Adj Close">> >>,
                    rows |-> MarketRows(n)]] : n \in Retained}
  \cup {[raised |-> FALSE,
         frame |-> [multi |-> TRUE,
                    columns |-> << <<"Close", SYMBOL>>, <<"Adj Close", SYMBOL>> >>,
                    rows |-> MarketRows(n)]] : n \in Retained}

DailyFetch == BrentFetchFrom(DailyResponses)

\* a business day closes, its point is published and the monitor is started
DailyRun ==
  /\ pc = "exit" /\ Len(market) < MaxDays
  /\ \E c \in Closes : market' = Append(market, c)
  /\ StartRun
  /\ UNCHANGED <<cfgVars, prev, pureVars>>

InitDaily ==
  /\ monitor = "brent" /\ creds \in BOOLEAN /\ K \in 1 .. MaxK /\ ak = FALSE
  /\ pc = "exit" /\ Fresh /\ NoHistory /\ NoIndex

NextDaily == DailyRun \/ DailyFetch \/ BrentDecide \/ BrentNotify

SpecDaily == InitDaily /\ [][NextDaily]_vars

\* the number of trailing published closes strictly above the threshold: the
\* newest point is that day of its streak
RECURSIVE Streak(_)
Streak(m) ==
  IF Len(m) = 0 \/ m[Len(m)] <= THRESHOLD THEN 0
  ELSE 1 + Streak(SubSeq(m, 1, Len(m) - 1))

\* C2: in daily runs on a gap-free growing series, a run answers shouldAlert = TRUE
\* only when its newest point is the K-th day of the current streak of closes
\* above the threshold (one run per streak); a run on a later day of the streak
\* answers FALSE.
C2_AlertOnlyOnKthDayOfStreak ==
  /\ should_alert => Streak(market) = K
  /\ (Evaluated /\ Streak(market) > K) => ~should_alert
C2_LaterDayOfStreakDebounced ==
  /\ pc = "exit" /\ exit_code = 0 /\ df # <<>> /\ ~should_alert
  /\ Streak(market) = K + 1 /\ Len(df) = K + 1

-----------------------------------------------------------------------------
(* Claims about the two monitors as scheduled processes *)

Resolved == IF monitor = "brent" THEN df # <<>> ELSE result # NoResult
AllFailed == \A i \in 1 .. Len(calls) : calls[i].outcome # "ok"

\* C3 as stated: the cn10y monitor notifies only on the first run at which the
\* yield satisfies the condition, and not on the next run while the yield still
\* satisfies it.
C3_NoRepeatedNotification ==
  (monitor = "cn10y" /\ prev.ran /\ prev.alerting /\ prev.notified) => post # "200"
\* C3 amended: every cn10y run that resolves a yield calls send_telegram exactly
\* when that latest yield is at or above the threshold, whatever the previous
\* run saw or sent; with credentials configured the call posts the message.
C3_NotifiesOnEveryRunAtOrAboveThreshold ==
  (monitor = "cn10y" /\ pc = "exit" /\ Resolved) =>
    /\ (post # "none") <=> (result.yld >= THRESHOLD_CN)
    /\ (creds /\ result.yld >= THRESHOLD_CN) => post \in Statuses
C3_NotifiedAgainOnNextRun ==
  /\ monitor = "cn10y" /\ pc = "exit"
  /\ prev.ran /\ prev.alerting /\ prev.notified
  /\ post = "200"

MethodOrder ==
  <<"try_akshare_zh_us", "try_akshare_yield_curve", "try_tradingeconomics", "try_investing_com">>

\* C4: fetch_yield_multi invokes its methods in the order try_akshare_zh_us,
\* try_akshare_yield_curve, try_tradingeconomics, try_investing_com; what it
\* returns is what the first succeeding method returned, and no method after
\* that one is invoked in the run.
C4_FirstSuccessShortCircuits ==
  monitor = "cn10y" =>
    /\ Len(calls) <= Len(MethodOrder)
    /\ \A i \in 1 .. Len(calls) : calls[i].name = MethodOrder[i]
    /\ \A i \in 1 .. Len(calls) - 1 : calls[i].outcome # "ok"
    /\ Resolved => (calls[Len(calls)].outcome = "ok" /\ result = calls[Len(calls)].value)
    /\ (Len(calls) > 0 /\ calls[Len(calls)].outcome = "ok") => result = calls[Len(calls)].value
C4_SecondMethodWonAndRunEnded ==
  /\ monitor = "cn10y" /\ pc = "exit" /\ ak
  /\ Len(calls) = 2 /\ calls[1].outcome # "ok" /\ calls[2].outcome = "ok"
  /\ result = calls[2].value

\* C5: when all four methods fail, YieldFetchError ends the run and its message
\* holds, for every attempted method in attempt order, the method's name and the
\* reason it failed with; no attempt is missing.
C5_ExhaustionMessageListsEveryFailure ==
  (monitor = "cn10y" /\ Len(calls) = Len(MethodOrder) /\ AllFailed) =>
    /\ pc = "exit" /\ exit_code = 2 /\ stderr.kind = "exhausted"
    /\ Len(stderr.lines) = Len(MethodOrder)
    /\ \A i \in 1 .. Len(MethodOrder) :
         stderr.lines[i] = <<MethodOrder[i], calls[i].outcome>>
C5_AllFourFailed ==
  /\ monitor = "cn10y" /\ ak /\ pc = "exit" /\ exit_code = 2
  /\ Len(calls) = 4 /\ AllFailed
  /\ calls[3].outcome = "HTTP error" /\ calls[4].outcome = "table not parsed"

Exhausted ==
  /\ AllFailed
  /\ Len(calls) = (IF monitor = "brent" THEN 6 ELSE 4)

\* C6 as stated, for both monitors: a run that resolves its data and has no alert
\* to send, or sends it, exits 0; a run whose sources are all exhausted exits
\* non-zero; a run with credentials configured whose alert the transport rejects
\* (non-200) exits non-zero.
C6_ExitContractBothMonitors ==
  pc = "exit" =>
    /\ (Resolved /\ (~should_alert \/ post = "200")) => exit_code = 0
    /\ Exhausted => exit_code \notin {0, -1}
    /\ (creds /\ should_alert /\ post = "non200") => exit_code \notin {0, -1}
\* C6 amended: the same, except that a rejected message (non-200) ends the run
\* non-zero in the Brent monitor only; the cn10y monitor warns and exits 0.
C6_ExitContractRejectionFatalInBrentOnly ==
  pc = "exit" =>
    /\ (Resolved /\ (~should_alert \/ post = "200")) => exit_code = 0
    /\ Exhausted => exit_code \notin {0, -1}
    /\ (monitor = "brent" /\ creds /\ should_alert /\ post = "non200")
         => exit_code \notin {0, -1}
    /\ (monitor = "cn10y" /\ creds /\ should_alert /\ post = "non200") => exit_code = 0
C6_CnRejectedMessageExitsZero ==
  /\ monitor = "cn10y" /\ pc = "exit" /\ creds /\ should_alert
  /\ post = "non200" /\ exit_code = 0

\* C7 as stated, for both monitors: without credentials a no-alert run exits 0 and
\* never calls the notifier, and an alerting run ends non-zero where the
\* notification is attempted.
C7_MissingCredentialsBothMonitors ==
  (pc = "exit" /\ ~creds /\ Resolved) =>
    /\ ~should_alert => (exit_code = 0 /\ post = "none")
    /\ should_alert => (exit_code \notin {0, -1} /\ post = "unconfigured")
\* C7 amended: without credentials a no-alert run of either monitor exits 0 and
\* never calls the notifier; an alerting run of the Brent monitor ends non-zero
\* in send_telegram, and an alerting run of the cn10y monitor skips the push in
\* send_telegram and exits 0.
C7_MissingCredentialsFatalInBrentOnly ==
  (pc = "exit" /\ ~creds /\ Resolved) =>
    /\ ~should_alert => (exit_code = 0 /\ post = "none")
    /\ (should_alert /\ monitor = "brent")
         => (exit_code \notin {0, -1} /\ post = "unconfigured" /\ stderr.kind = "unconfigured")
    /\ (should_alert /\ monitor = "cn10y") => (exit_code = 0 /\ post = "unconfigured")
C7_CnAlertWithoutCredentialsExitsZero ==
  /\ monitor = "cn10y" /\ pc = "exit" /\ ~creds /\ Resolved /\ should_alert
  /\ post = "unconfigured" /\ exit_code = 0

\* the close the provider's last non-missing row of date d carries in the column
\* the returned series was taken from
LastSeen(f, d, closes) ==
  \E j \in 1 .. Len(f.rows) :
    /\ f.rows[j].date = d /\ f.rows[j].x # NaN
    /\ \A i \in j + 1 .. Len(f.rows) : ~(f.rows[i].date = d /\ f.rows[i].x # NaN)
    /\ \E label \in {f.columns[c] : c \in 1 .. Len(f.columns)} :
         Cell(f.rows[j], label) \in closes

\* C10: every series fetch_daily returns is canonical: non-empty, without a
\* missing value, strictly increasing by date (one point per date), each date
\* carrying the value of the provider's last row of that date.
C10_FetchedSeriesIsCanonical ==
  (monitor = "brent" /\ pc = "decide") =>
    /\ df # <<>>
    /\ \A j \in 1 .. Len(df) : df[j].Close # NaN
    /\ \A j \in 1 .. Len(df) - 1 : df[j].date < df[j + 1].date
    /\ \A j \in 1 .. Len(df) : LastSeen(df_raw, df[j].date, {df[j].Close})

AttemptOrder == <<"history_40d", "history_60d", "history_3mo",
                  "download_40d", "download_60d", "download_3mo">>

\* C11: fetch_daily makes its six attempts in the order history(40d), history(60d),
\* history(3mo), download(40d), download(60d), download(3mo); an attempt that
\* fails (the call raises, the answer is empty, normalisation yields nothing) is
\* followed by the next attempt instead of ending the run, and a run ends in
\* fetch_daily without a series only after all six attempts have failed.
C11_EveryFailureFallsThroughToNextAttempt ==
  monitor = "brent" =>
    /\ Len(calls) <= Len(AttemptOrder)
    /\ \A i \in 1 .. Len(calls) : calls[i].name = AttemptOrder[i]
    /\ \A i \in 1 .. Len(calls) - 1 : calls[i].outcome = "failed"
    /\ (Len(calls) > 0 /\ Len(calls) < Len(AttemptOrder)
          /\ calls[Len(calls)].outcome = "failed")
         => (pc = "fetch" /\ attempt = Len(calls) + 1)
    /\ (pc = "exit" /\ df = <<>>) => Len(calls) = Len(AttemptOrder)

====
